---- MODULE Spec2Model ----
(***************************************************************************)
(* The ServiceAccount controller of provider-confluent: the connector      *)
(* (Connect, createAndConvertClientFunc) and the external client's         *)
(* Observe / Create / Update / Delete handlers, driven one reconciliation  *)
(* tick at a time against a remote service-account API and the             *)
(* desired-state store (kube).                                             *)
(*                                                                         *)
(* One managed resource is modelled.  `mr` is its persisted record in the  *)
(* store, `cr[w]` the in-memory copy a tick works on, `remote` the remote  *)
(* system's service accounts by name.  `log[w]` records, in order, every   *)
(* remote call and every store write the running tick has made.            *)
(***************************************************************************)
EXTENDS Integers, Sequences, FiniteSets, TLC

VARIABLES
    mr,        \* persisted managed resource: [ext, desc, del, cond, id]
    pcUsage,   \* a ProviderConfigUsage for the resource exists in the store
    remote,    \* remote service accounts: [Names -> RemoteObj]
    nextID,    \* next identifier the remote system hands out
    pc,        \* per tick: which handler runs next
    cr,        \* per tick: in-memory copy of the managed resource
    pre,       \* per tick: the resource as fetched, and nextID, at its start
    conn,      \* per tick: what Connect resolved (credential bytes, client)
    log,       \* per tick: remote calls and store writes made, in order
    result,    \* per tick: error returned (NoErr = none)
    ticks,     \* reconciliation attempts started
    oob        \* out-of-band changes made to the remote system

vars == <<mr, pcUsage, remote, nextID, pc, cr, pre, conn, log, result, ticks, oob>>

----------------------------------------------------------------------------
(* Bounds of the model *)

MaxTicks == 3
MaxOutOfBand == 1
MaxCredLen == 2

----------------------------------------------------------------------------
(* Domains *)

Workers == {"w1", "w2"}
FirstWorker == "w1"

\* metadata.name of the managed resource (the derived addressing name) and a
\* name a caller may have put in the external-name annotation.
ResourceName == "svc-1"
Names == {"svc-1", "sa-legacy"}
Descs == {"payments", "billing"}

\* Error values are chains of messages, outermost first; NoErr is Go's nil.
NoErr == <<>>
errNotMyType == "managed resource is not a ServiceAccount custom resource"
errTrackPCUsage == "cannot track ProviderConfig usage"
errGetPC == "cannot get ProviderConfig"
errGetCreds == "cannot get credentials"
errNewClient == "cannot create new Service"
errAuthCredentials == "invalid client credentials"
errAuthRejected == "authentication rejected"
ErrNotExists == "NotFound"
ErrLookup == "LookupError"
ErrRemoteObjectMissing == "RemoteObjectMissing"
ErrCreate == "CreateError"
ErrUpdate == "UpdateError"
ErrDelete == "DeleteError"
ErrKubeUpdate == "kube update failed"
ErrStatusUpdate == "kube status update failed"

\* errors.New(msg) and errors.Wrap(err, msg)
New(msg) == <<msg>>
Wrap(err, msg) == <<msg>> \o err

NoObj == [id |-> 0, desc |-> "", by |-> ""]

\* One entry of a tick's log.
Ev(op, name, id, desc, cond, err) ==
    [op |-> op, name |-> name, id |-> id, desc |-> desc, cond |-> cond, err |-> err]

Count(s, op) == Cardinality({i \in 1..Len(s) : s[i].op = op})

NoConn == [creds |-> <<>>, api |-> "", svc |-> FALSE]

\* The in-memory resource of a tick that is not running.
NoCR == [ext |-> "", desc |-> "", del |-> FALSE, cond |-> "", id |-> 0]
NoPre == [r |-> NoCR, nid |-> 0]

----------------------------------------------------------------------------
(* Credential bytes and strings.Split *)

CredChars == {"k", ":"}

CredBytes == UNION {[1..n -> CredChars] : n \in 0..MaxCredLen}

RECURSIVE Split(_, _)
Split(s, sep) ==
    IF \E i \in 1..Len(s) : s[i] = sep
    THEN LET i == CHOOSE k \in 1..Len(s) :
                      s[k] = sep /\ \A j \in 1..(k - 1) : s[j] # sep
         IN <<SubSeq(s, 1, i - 1)>> \o Split(SubSeq(s, i + 1, Len(s)), sep)
    ELSE <<s>>

\* The ProviderConfig's APICredentials list, by identifier.
APICredLists == {<<>>, <<"acl">>, <<"acl", "serviceaccount">>}
SchemeGroupVersionIdentifier == "serviceaccount"

\* for _, value := range pc.Spec.APICredentials { if match { ...; break } }
SelectAPICredentials(list) ==
    IF \E i \in 1..Len(list) : list[i] = SchemeGroupVersionIdentifier
    THEN list[CHOOSE i \in 1..Len(list) :
                  list[i] = SchemeGroupVersionIdentifier
                  /\ \A j \in 1..(i - 1) : list[j] # SchemeGroupVersionIdentifier]
    ELSE ""

\* Variant: credentials with more than two parts are let through.
createAndConvertClientFuncLoose(clientCreds, apiCreds, authOk) ==
    LET credParts == Split(clientCreds, ":")
        authErr == IF authOk THEN NoErr ELSE New(errAuthRejected)
        auth == Ev("Authenticate", "", 0, "", "", authErr)
    IN IF Len(credParts) < 2
       THEN [err |-> New(errAuthCredentials), svc |-> FALSE, log |-> <<>>]
       ELSE IF authErr # NoErr
       THEN [err |-> authErr, svc |-> FALSE, log |-> <<auth>>]
       ELSE [err |-> NoErr, svc |-> TRUE, log |-> <<auth>>]

\* createAndConvertClientFunc: [err, svc, log].  authOk is the remote
\* system's answer to Authenticate.
createAndConvertClientFunc(clientCreds, apiCreds, authOk) ==
    LET credParts == Split(clientCreds, ":")
        authErr == IF authOk THEN NoErr ELSE New(errAuthRejected)
        auth == Ev("Authenticate", "", 0, "", "", authErr)
    IN IF Len(credParts) # 2
       THEN [err |-> New(errAuthCredentials), svc |-> FALSE, log |-> <<>>]
       ELSE IF authErr # NoErr
       THEN [err |-> authErr, svc |-> FALSE, log |-> <<auth>>]
       ELSE [err |-> NoErr, svc |-> TRUE, log |-> <<auth>>]

----------------------------------------------------------------------------
(* State *)

TypeOK ==
    /\ mr \in [ext : Names \cup {""}, desc : Descs, del : BOOLEAN,
               cond : {"", "Creating", "Available", "Deleting"}, id : Nat]
    /\ pcUsage \in BOOLEAN
    /\ nextID \in Nat
    /\ ticks \in 0..MaxTicks
    /\ oob \in 0..MaxOutOfBand

\* The first identifier the remote system hands out to the Engine.
FirstFreshID == 3

\* Remote objects that exist before the first tick were made by someone else.
InitRemote ==
    {r \in [Names -> [id : 0..2, desc : Descs \cup {""}, by : {"", "other"}]] :
        \A n \in Names :
            \/ r[n] = NoObj
            \/ /\ r[n].id = (IF n = ResourceName THEN 1 ELSE 2)
               /\ r[n].desc \in Descs
               /\ r[n].by = "other"}

Init ==
    /\ mr \in [ext : {"", "sa-legacy"}, desc : Descs, del : {FALSE},
               cond : {""}, id : {0}]
    /\ pcUsage = FALSE
    /\ remote \in InitRemote
    /\ nextID = FirstFreshID
    /\ pc = [w \in Workers |-> "idle"]
    /\ cr = [w \in Workers |-> NoCR]
    /\ pre = [w \in Workers |-> NoPre]
    /\ conn = [w \in Workers |-> NoConn]
    /\ log = [w \in Workers |-> <<>>]
    /\ result = [w \in Workers |-> NoErr]
    /\ ticks = 0
    /\ oob = 0

----------------------------------------------------------------------------
(* The remote service-account client (serviceaccount.IClient) *)

ServiceAccountByName(rem, name, fails) ==
    IF fails THEN [err |-> New(ErrLookup), obj |-> NoObj]
    ELSE IF rem[name] = NoObj THEN [err |-> New(ErrNotExists), obj |-> NoObj]
    ELSE [err |-> NoErr, obj |-> rem[name]]

\* A create is rejected on a duplicate name, or for a reason of the remote's.
ServiceAccountCreate(rem, nid, name, desc, accepted) ==
    IF rem[name] # NoObj \/ ~accepted
    THEN [err |-> New(ErrCreate), obj |-> NoObj, remote |-> rem, nextID |-> nid]
    ELSE LET o == [id |-> nid, desc |-> desc, by |-> "engine"]
         IN [err |-> NoErr, obj |-> o,
             remote |-> [rem EXCEPT ![name] = o], nextID |-> nid + 1]

HasID(rem, id) == \E n \in Names : rem[n] # NoObj /\ rem[n].id = id

\* The name of the remote object an identifier addresses ("" when none does).
NameOfID(rem, id) ==
    IF HasID(rem, id)
    THEN CHOOSE n \in Names : rem[n] # NoObj /\ rem[n].id = id
    ELSE ""

ServiceAccountUpdate(rem, id, desc, accepted) ==
    IF ~HasID(rem, id) \/ ~accepted
    THEN [err |-> New(ErrUpdate), remote |-> rem]
    ELSE [err |-> NoErr,
          remote |-> [n \in Names |->
                        IF rem[n] # NoObj /\ rem[n].id = id
                        THEN [rem[n] EXCEPT !.desc = desc] ELSE rem[n]]]

\* Deleting an object that is already absent succeeds.
ServiceAccountDelete(rem, id, accepted) ==
    IF ~HasID(rem, id) THEN [err |-> NoErr, remote |-> rem]
    ELSE IF ~accepted THEN [err |-> New(ErrDelete), remote |-> rem]
    ELSE [err |-> NoErr,
          remote |-> [n \in Names |->
                        IF rem[n].id = id THEN NoObj ELSE rem[n]]]

----------------------------------------------------------------------------
(* Helpers of the controller package *)

\* The addressing name: the external name when the resource carries one,
\* else the name derived from the resource's identity.
ExternalNameHelper(c) ==
    IF c.ext # "" THEN [name |-> c.ext, exists |-> TRUE]
    ELSE [name |-> ResourceName, exists |-> FALSE]

\* The decision of Observe on the lookup's error: [create, err].
\*   not found, no external name  -> create
\*   not found, external name     -> RemoteObjectMissing
\*   found, no external name      -> import (handled by Create)
\*   found, external name         -> exists
\*   any other lookup failure     -> that error
ObserveCreateResource(c, err) ==
    IF err = New(ErrNotExists)
    THEN IF c.ext = "" THEN [create |-> TRUE, err |-> NoErr]
         ELSE [create |-> FALSE, err |-> New(ErrRemoteObjectMissing)]
    ELSE IF err # NoErr THEN [create |-> FALSE, err |-> err]
    ELSE IF c.ext = "" THEN [create |-> TRUE, err |-> NoErr]
    ELSE [create |-> FALSE, err |-> NoErr]

\* Drift: the declared fields against the snapshot's mirrored fields.
ObserveUpdateResource(c, observe) == c.desc # observe.desc

\* The decision of Create on its own lookup's error: [isImport, err].
CreateResourceIsImport(err) ==
    IF err = NoErr THEN [isImport |-> TRUE, err |-> NoErr]
    ELSE IF err = New(ErrNotExists) THEN [isImport |-> FALSE, err |-> NoErr]
    ELSE [isImport |-> FALSE, err |-> err]

----------------------------------------------------------------------------
(* Store writes *)

\* c.kube.Status().Update(ctx, cr): persists the status of the in-memory copy.
\* Variant: the status write goes through the whole-object update and
\* carries the tick's copy of the external name with it.
StatusUpdateWholeObject(m, c) ==
    [m EXCEPT !.cond = c.cond, !.id = c.id, !.ext = c.ext]

StatusUpdate(m, c) == [m EXCEPT !.cond = c.cond, !.id = c.id]

\* Variant: the external name is set in memory and never persisted.
KubeUpdateDropsName(m, c) == m

\* c.kube.Update(ctx, cr): persists the metadata of the in-memory copy.
KubeUpdate(m, c) == [m EXCEPT !.ext = c.ext]

StatusEv(c, ok) ==
    Ev("StatusUpdate", "", c.id, "", c.cond,
       IF ok THEN NoErr ELSE New(ErrStatusUpdate))

KubeEv(c, ok) ==
    Ev("KubeUpdate", c.ext, 0, "", "", IF ok THEN NoErr ELSE New(ErrKubeUpdate))

\* What a handler leaves behind.
Out(c, m, rem, nid, lg, err) ==
    [cr |-> c, mr |-> m, remote |-> rem, nextID |-> nid, log |-> lg, err |-> err]

----------------------------------------------------------------------------
(* connector.Connect *)

\* Variant: the usage is recorded even when tracking reports a failure.
TrackUsageAlways(usage, trackOk) == TRUE

\* c.usage.Track(ctx, mg): records that the resource uses its ProviderConfig.
TrackUsage(usage, trackOk) == IF trackOk THEN TRUE ELSE usage

ConnectOutcome(usage, typeOk, trackOk, getOk, credsOk, creds, apiList, authOk) ==
    LET track == Ev("Track", "", 0, "", "",
                    IF trackOk THEN NoErr ELSE New("track failed"))
        getPC == Ev("GetPC", "", 0, "", "",
                    IF getOk THEN NoErr ELSE New("get failed"))
        getCreds == Ev("GetCreds", "", 0, "", "",
                       IF credsOk THEN NoErr ELSE New("extract failed"))
        apiCredentials == SelectAPICredentials(apiList)
        svc == createAndConvertClientFunc(creds, apiCredentials, authOk)
        none == NoConn
    IN IF ~typeOk
       THEN [usage |-> usage, conn |-> none, log |-> <<>>,
             err |-> New(errNotMyType)]
       ELSE IF ~trackOk
       THEN [usage |-> TrackUsage(usage, FALSE), conn |-> none, log |-> <<track>>,
             err |-> Wrap(track.err, errTrackPCUsage)]
       ELSE IF ~getOk
       THEN [usage |-> TrackUsage(usage, TRUE), conn |-> none, log |-> <<track, getPC>>,
             err |-> Wrap(getPC.err, errGetPC)]
       ELSE IF ~credsOk
       THEN [usage |-> TrackUsage(usage, TRUE), conn |-> none, log |-> <<track, getPC, getCreds>>,
             err |-> Wrap(getCreds.err, errGetCreds)]
       ELSE IF svc.err # NoErr
       THEN [usage |-> TrackUsage(usage, TRUE),
             conn |-> [creds |-> creds, api |-> "", svc |-> FALSE],
             log |-> <<track, getPC, getCreds>> \o svc.log,
             err |-> Wrap(svc.err, errNewClient)]
       ELSE [usage |-> TrackUsage(usage, TRUE),
             conn |-> [creds |-> creds, api |-> apiCredentials, svc |-> TRUE],
             log |-> <<track, getPC, getCreds>> \o svc.log,
             err |-> NoErr]

\* What Connect's collaborators may answer.  A collaborator that is not
\* reached (an earlier one failed) answers nothing: its answer is fixed.
ConnectInputs ==
    {i \in [typeOk : BOOLEAN, trackOk : BOOLEAN, getOk : BOOLEAN,
            credsOk : BOOLEAN, creds : CredBytes, apiList : APICredLists,
            authOk : BOOLEAN] :
        /\ ~i.typeOk => i.trackOk
        /\ ~(i.typeOk /\ i.trackOk) => i.getOk
        /\ ~(i.typeOk /\ i.trackOk /\ i.getOk) => i.credsOk
        /\ ~(i.typeOk /\ i.trackOk /\ i.getOk /\ i.credsOk) =>
               i.creds = <<>> /\ i.apiList = <<>> /\ i.authOk}

----------------------------------------------------------------------------
(* external.Observe *)

\* Variant: the helper's error is dropped.
ObserveDecisionIgnoresError(oc, update) ==
    IF oc.create THEN "create"
    ELSE IF update THEN "update"
    ELSE "available"

\* Variant: an existing object is always reported as out of date.
ObserveDecisionAlwaysUpdates(oc, update) ==
    IF oc.err # NoErr THEN "error"
    ELSE IF oc.create THEN "create"
    ELSE "update"

\* Variant: an existing object is reported as up to date without the
\* drift check.
ObserveDecisionSkipsDrift(oc, update) ==
    IF oc.err # NoErr THEN "error"
    ELSE IF oc.create THEN "create"
    ELSE "available"

\* Variant: a helper's error is answered as an up-to-date object.
ObserveDecisionErrorAsAvailable(oc, update) ==
    IF oc.err # NoErr THEN "available"
    ELSE IF oc.create THEN "create"
    ELSE IF update THEN "update"
    ELSE "available"

\* The branch Observe takes on its helpers' answers.
ObserveDecision(oc, update) ==
    IF oc.err # NoErr THEN "error"
    ELSE IF oc.create THEN "create"
    ELSE IF update THEN "update"
    ELSE "available"

ObserveOutcome(c, m, rem, nid, lookupFails, writeOk) ==
    LET eh == ExternalNameHelper(c)
        observe == ServiceAccountByName(rem, eh.name, lookupFails)
        lk == Ev("Lookup", eh.name, observe.obj.id, observe.obj.desc, "",
                 observe.err)
        oc == ObserveCreateResource(c, observe.err)
        c1 == [c EXCEPT !.cond = "Available"]
        no == [exists |-> FALSE, upToDate |-> FALSE]
        branch == ObserveDecision(oc, ObserveUpdateResource(c, observe.obj))
    IN IF branch = "error"
       THEN [out |-> Out(c, m, rem, nid, <<lk>>, oc.err), obs |-> no]
       ELSE IF branch = "create"
       THEN [out |-> Out(c, m, rem, nid, <<lk>>, NoErr), obs |-> no]
       ELSE IF branch = "update"
       THEN [out |-> Out(c, m, rem, nid, <<lk>>, NoErr),
             obs |-> [exists |-> TRUE, upToDate |-> FALSE]]
       ELSE IF ~writeOk
       THEN [out |-> Out(c1, m, rem, nid, <<lk, StatusEv(c1, FALSE)>>,
                         New(ErrStatusUpdate)),
             obs |-> no]
       ELSE [out |-> Out(c1, StatusUpdate(m, c1), rem, nid,
                         <<lk, StatusEv(c1, TRUE)>>, NoErr),
             obs |-> [exists |-> TRUE, upToDate |-> TRUE]]

----------------------------------------------------------------------------
(* external.Create *)

CreateOutcome(c, m, rem, nid, st1Ok, lookupFails, accepted, kubeOk, st2Ok) ==
    LET c1 == [c EXCEPT !.cond = "Creating"]
        m1 == StatusUpdate(m, c1)
        w1 == StatusEv(c1, st1Ok)
        eh == ExternalNameHelper(c1)
        observe == ServiceAccountByName(rem, eh.name, lookupFails)
        lk == IF eh.exists
              THEN <<Ev("Lookup", eh.name, observe.obj.id, observe.obj.desc, "",
                        observe.err)>>
              ELSE <<>>
        imp == IF eh.exists THEN CreateResourceIsImport(observe.err)
               ELSE [isImport |-> FALSE, err |-> NoErr]
        c2 == IF imp.isImport THEN [c1 EXCEPT !.id = observe.obj.id] ELSE c1
        crt == ServiceAccountCreate(rem, nid, eh.name, c2.desc, accepted)
        call == IF imp.isImport THEN <<>>
                ELSE <<Ev("RemoteCreate", eh.name, crt.obj.id, c2.desc, "",
                          crt.err)>>
        rem3 == IF imp.isImport THEN rem ELSE crt.remote
        nid3 == IF imp.isImport THEN nid ELSE crt.nextID
        c3 == IF imp.isImport THEN c2 ELSE [c2 EXCEPT !.id = crt.obj.id]
        c4 == [c3 EXCEPT !.ext = eh.name]
        m4 == KubeUpdate(m1, c4)
        m5 == StatusUpdate(m4, c4)
    IN IF ~st1Ok
       THEN Out(c1, m, rem, nid, <<w1>>, w1.err)
       ELSE IF imp.err # NoErr
       THEN Out(c1, m1, rem, nid, <<w1>> \o lk, imp.err)
       ELSE IF ~imp.isImport /\ crt.err # NoErr
       THEN Out(c2, m1, rem, nid, <<w1>> \o lk \o call, crt.err)
       ELSE IF ~kubeOk
       THEN Out(c4, m1, rem3, nid3,
                <<w1>> \o lk \o call \o <<KubeEv(c4, FALSE)>>,
                New(ErrKubeUpdate))
       ELSE IF ~st2Ok
       THEN Out(c4, m4, rem3, nid3,
                <<w1>> \o lk \o call \o <<KubeEv(c4, TRUE), StatusEv(c4, FALSE)>>,
                New(ErrStatusUpdate))
       ELSE Out(c4, m5, rem3, nid3,
                <<w1>> \o lk \o call \o <<KubeEv(c4, TRUE), StatusEv(c4, TRUE)>>,
                NoErr)

----------------------------------------------------------------------------
(* external.Update *)

\* Variant: the handler returns success without calling the remote system.
UpdateOutcomeStub(c, m, rem, nid, accepted) == Out(c, m, rem, nid, <<>>, NoErr)

\* Variant: a rejected remote update is reported as success.
UpdateOutcomeSwallowsError(c, m, rem, nid, accepted) ==
    LET upd == ServiceAccountUpdate(rem, c.id, c.desc, accepted)
        call == Ev("RemoteUpdate", NameOfID(rem, c.id), c.id, c.desc, "", upd.err)
    IN Out(c, m, upd.remote, nid, <<call>>, NoErr)

UpdateOutcome(c, m, rem, nid, accepted) ==
    LET upd == ServiceAccountUpdate(rem, c.id, c.desc, accepted)
        call == Ev("RemoteUpdate", NameOfID(rem, c.id), c.id, c.desc, "", upd.err)
    IN Out(c, m, upd.remote, nid, <<call>>, upd.err)

----------------------------------------------------------------------------
(* external.Delete *)

\* Variant: deleting an object that is already gone is reported as a failure.
DeleteOutcomeStrict(c, m, rem, nid, stOk, accepted) ==
    LET c1 == [c EXCEPT !.cond = "Deleting"]
        w1 == StatusEv(c1, stOk)
        del == ServiceAccountDelete(rem, c1.id, accepted)
        err == IF HasID(rem, c1.id) THEN del.err ELSE New(ErrDelete)
        call == Ev("RemoteDelete", NameOfID(rem, c1.id), c1.id, "", "", err)
    IN IF ~stOk
       THEN Out(c1, m, rem, nid, <<w1>>, w1.err)
       ELSE Out(c1, StatusUpdate(m, c1), del.remote, nid, <<w1, call>>, err)

\* Variant: the remote delete is issued first and Deleting is written after.
DeleteOutcomeCallsFirst(c, m, rem, nid, stOk, accepted) ==
    LET c1 == [c EXCEPT !.cond = "Deleting"]
        w1 == StatusEv(c1, stOk)
        del == ServiceAccountDelete(rem, c.id, accepted)
        call == Ev("RemoteDelete", NameOfID(rem, c.id), c.id, "", "", del.err)
    IN IF del.err # NoErr
       THEN Out(c, m, rem, nid, <<call>>, del.err)
       ELSE IF ~stOk
       THEN Out(c1, m, del.remote, nid, <<call, w1>>, w1.err)
       ELSE Out(c1, StatusUpdate(m, c1), del.remote, nid, <<call, w1>>, NoErr)

\* Variant: the status is written once more after the remote delete.
DeleteOutcomeWritesAgain(c, m, rem, nid, stOk, accepted) ==
    LET c1 == [c EXCEPT !.cond = "Deleting"]
        w1 == StatusEv(c1, stOk)
        del == ServiceAccountDelete(rem, c1.id, accepted)
        call == Ev("RemoteDelete", NameOfID(rem, c1.id), c1.id, "", "", del.err)
    IN IF ~stOk
       THEN Out(c1, m, rem, nid, <<w1>>, w1.err)
       ELSE Out(c1, StatusUpdate(m, c1), del.remote, nid, <<w1, call, w1>>,
                del.err)

DeleteOutcome(c, m, rem, nid, stOk, accepted) ==
    LET c1 == [c EXCEPT !.cond = "Deleting"]
        w1 == StatusEv(c1, stOk)
        del == ServiceAccountDelete(rem, c1.id, accepted)
        call == Ev("RemoteDelete", NameOfID(rem, c1.id), c1.id, "", "", del.err)
    IN IF ~stOk
       THEN Out(c1, m, rem, nid, <<w1>>, w1.err)
       ELSE Out(c1, StatusUpdate(m, c1), del.remote, nid, <<w1, call>>, del.err)

----------------------------------------------------------------------------
(* The reconciliation tick: connect, then on the deletion path delete,      *)
(* otherwise observe and create, update or leave alone.                     *)

Idle(w) == pc[w] = "idle"

Apply(w, out, next) ==
    /\ cr' = [cr EXCEPT ![w] = out.cr]
    /\ mr' = out.mr
    /\ remote' = out.remote
    /\ nextID' = out.nextID
    /\ log' = [log EXCEPT ![w] = @ \o out.log]
    /\ result' = [result EXCEPT ![w] = out.err]
    /\ pc' = [pc EXCEPT ![w] = next]

\* The handler a tick runs after a successful Connect.
AfterConnect(c) == IF c.del THEN "delete" ELSE "observe"

\* The handler a tick runs after Observe.
AfterObserve(obs, err) ==
    IF err # NoErr THEN "done"
    ELSE IF ~obs.exists THEN "create"
    ELSE IF ~obs.upToDate THEN "update"
    ELSE "done"

\* The scheduler hands the resource to a tick; no other tick for it runs
\* (single-flight per identity), so the first worker takes it.
StartTick(w) ==
    /\ \A v \in Workers : Idle(v)
    /\ w = FirstWorker
    /\ ticks < MaxTicks
    /\ ticks' = ticks + 1
    /\ pc' = [pc EXCEPT ![w] = "connect"]
    /\ cr' = [cr EXCEPT ![w] = mr]
    /\ pre' = [pre EXCEPT ![w] = [r |-> mr, nid |-> nextID]]
    /\ UNCHANGED <<mr, pcUsage, remote, nextID, conn, log, result, oob>>

Connect(w) ==
    /\ pc[w] = "connect"
    /\ \E i \in ConnectInputs :
          LET o == ConnectOutcome(pcUsage, i.typeOk, i.trackOk, i.getOk,
                                  i.credsOk, i.creds, i.apiList, i.authOk)
          IN /\ pcUsage' = o.usage
             /\ conn' = [conn EXCEPT ![w] = o.conn]
             /\ log' = [log EXCEPT ![w] = @ \o o.log]
             /\ result' = [result EXCEPT ![w] = o.err]
             /\ pc' = [pc EXCEPT ![w] =
                         IF o.err # NoErr THEN "done" ELSE AfterConnect(cr[w])]
    /\ UNCHANGED <<mr, remote, nextID, cr, pre, ticks, oob>>

\* The external client keeps the service handle and the store client, not
\* what the connector resolved.
Observe(w) ==
    /\ pc[w] = "observe"
    /\ \E lookupFails, writeOk \in BOOLEAN :
          LET o == ObserveOutcome(cr[w], mr, remote, nextID, lookupFails, writeOk)
          IN Apply(w, o.out, AfterObserve(o.obs, o.out.err))
    /\ conn' = [conn EXCEPT ![w] = [NoConn EXCEPT !.svc = TRUE]]
    /\ UNCHANGED <<pcUsage, pre, ticks, oob>>

Create(w) ==
    /\ pc[w] = "create"
    /\ \E st1Ok, lookupFails, accepted, kubeOk, st2Ok \in BOOLEAN :
          Apply(w, CreateOutcome(cr[w], mr, remote, nextID, st1Ok, lookupFails,
                                 accepted, kubeOk, st2Ok), "done")
    /\ UNCHANGED <<pcUsage, pre, conn, ticks, oob>>

Update(w) ==
    /\ pc[w] = "update"
    /\ \E accepted \in BOOLEAN :
          Apply(w, UpdateOutcome(cr[w], mr, remote, nextID, accepted), "done")
    /\ UNCHANGED <<pcUsage, pre, conn, ticks, oob>>

Delete(w) ==
    /\ pc[w] = "delete"
    /\ \E stOk, accepted \in BOOLEAN :
          Apply(w, DeleteOutcome(cr[w], mr, remote, nextID, stOk, accepted), "done")
    /\ conn' = [conn EXCEPT ![w] = [NoConn EXCEPT !.svc = TRUE]]
    /\ UNCHANGED <<pcUsage, pre, ticks, oob>>

\* The tick returns to the scheduler.
EndTick(w) ==
    /\ pc[w] = "done"
    /\ pc' = [pc EXCEPT ![w] = "idle"]
    /\ cr' = [cr EXCEPT ![w] = NoCR]
    /\ pre' = [pre EXCEPT ![w] = NoPre]
    /\ conn' = [conn EXCEPT ![w] = NoConn]
    /\ log' = [log EXCEPT ![w] = <<>>]
    /\ result' = [result EXCEPT ![w] = NoErr]
    /\ UNCHANGED <<mr, pcUsage, remote, nextID, ticks, oob>>

----------------------------------------------------------------------------
(* The caller and the remote system's other users.  Connect and the tick's  *)
(* return read and write neither the stored resource nor the remote        *)
(* system's objects, so a change made while one of them runs is the same    *)
(* change made right after it.                                              *)

Quiet == \A w \in Workers : pc[w] \notin {"connect", "done"}

MarkForDeletion ==
    /\ Quiet
    /\ ~mr.del
    /\ mr' = [mr EXCEPT !.del = TRUE]
    /\ UNCHANGED <<pcUsage, remote, nextID, pc, cr, pre, conn, log, result, ticks, oob>>

OutOfBandDelete(n) ==
    /\ Quiet
    /\ oob < MaxOutOfBand
    /\ remote[n] # NoObj
    /\ remote' = [remote EXCEPT ![n] = NoObj]
    /\ oob' = oob + 1
    /\ UNCHANGED <<mr, pcUsage, nextID, pc, cr, pre, conn, log, result, ticks>>

OutOfBandDrift(n, d) ==
    /\ Quiet
    /\ oob < MaxOutOfBand
    /\ remote[n] # NoObj
    /\ remote[n].desc # d
    /\ remote' = [remote EXCEPT ![n].desc = d]
    /\ oob' = oob + 1
    /\ UNCHANGED <<mr, pcUsage, nextID, pc, cr, pre, conn, log, result, ticks>>

Next ==
    \/ \E w \in Workers : StartTick(w)
    \/ \E w \in Workers : Connect(w)
    \/ \E w \in Workers : Observe(w)
    \/ \E w \in Workers : Create(w)
    \/ \E w \in Workers : Update(w)
    \/ \E w \in Workers : Delete(w)
    \/ \E w \in Workers : EndTick(w)
    \/ MarkForDeletion
    \/ \E n \in Names : OutOfBandDelete(n)
    \/ \E n \in Names, d \in Descs : OutOfBandDrift(n, d)

Spec == Init /\ [][Next]_vars

----------------------------------------------------------------------------
(* Reading a tick's log *)

Has(s, op) == \E i \in 1..Len(s) : s[i].op = op

First(s, op) ==
    s[CHOOSE i \in 1..Len(s) : s[i].op = op /\ \A j \in 1..(i - 1) : s[j].op # op]

Finished(w) == pc[w] = "done"

\* Observe's lookup is the first lookup of a tick.
ObservedNotFound(w) ==
    Has(log[w], "Lookup") /\ First(log[w], "Lookup").err = New(ErrNotExists)

ObservedFound(w) ==
    Has(log[w], "Lookup") /\ First(log[w], "Lookup").err = NoErr

RemoteWrites(w) ==
    Count(log[w], "RemoteCreate") + Count(log[w], "RemoteUpdate")
        + Count(log[w], "RemoteDelete")

----------------------------------------------------------------------------
(* Properties *)

\* C1 (first-time creation): a tick for a resource that had no external name
\* and whose lookup by the derived name answered not-found issues at most one
\* remote Create, exactly one once its Creating status write went through,
\* and when it returns without error the persisted AtProvider.ID is the
\* identifier that Create returned and the persisted external name is the
\* derived name.
C1_FirstTimeCreation ==
    \A w \in Workers :
        (Finished(w) /\ pre[w].r.ext = "" /\ ObservedNotFound(w)) =>
            /\ Count(log[w], "RemoteCreate") <= 1
            /\ (\E i \in 1..Len(log[w]) :
                    /\ log[w][i].op = "StatusUpdate"
                    /\ log[w][i].cond = "Creating"
                    /\ log[w][i].err = NoErr)
                  => Count(log[w], "RemoteCreate") = 1
            /\ result[w] = NoErr =>
                  /\ Count(log[w], "RemoteCreate") = 1
                  /\ LET e == First(log[w], "RemoteCreate")
                     IN /\ e.err = NoErr
                        /\ e.name = ResourceName
                        /\ e.desc = pre[w].r.desc
                        /\ e.id >= pre[w].nid
                        /\ mr.id = e.id
                        /\ mr.ext = ResourceName

C1_Witness ==
    \E w \in Workers :
        /\ Finished(w) /\ pre[w].r.ext = "" /\ ObservedNotFound(w)
        /\ result[w] = NoErr
        /\ mr.id # 0 /\ mr.ext = ResourceName
        /\ remote[ResourceName].id = mr.id

\* C2 (import adoption): a tick for a resource that had no external name and
\* whose lookup by the derived name found a remote object issues no remote
\* Create, and when it returns without error the persisted AtProvider.ID is
\* the identifier of the found object.
C2_ImportAdoption ==
    \A w \in Workers :
        (Finished(w) /\ pre[w].r.ext = "" /\ ObservedFound(w)) =>
            /\ Count(log[w], "RemoteCreate") = 0
            /\ result[w] = NoErr => mr.id = First(log[w], "Lookup").id

\* C3 (out-of-band deletion is surfaced, not healed): every tick for a
\* resource that carries an external name and whose lookup by that name
\* answered not-found ends at Observe with the RemoteObjectMissing error and
\* issues no remote Create; this holds of the first such tick and of every
\* later one.
C3_MissingSurfaced ==
    \A w \in Workers :
        (pc[w] # "idle" /\ pre[w].r.ext # "" /\ ObservedNotFound(w)) =>
            /\ Finished(w)
            /\ result[w] = New(ErrRemoteObjectMissing)
            /\ Count(log[w], "RemoteCreate") = 0

\* A second tick that finds the object the Engine created gone.
C3_Witness ==
    \E w \in Workers :
        /\ Finished(w) /\ pre[w].r.ext # "" /\ ObservedNotFound(w)
        /\ pre[w].r.id # 0
        /\ ticks = MaxTicks

\* C4 (drift triggers update, not recreate): a finished tick for a resource
\* that carries an external name and whose lookup found a remote object whose
\* description differs from the declared one has issued exactly one remote
\* Update, carrying the declared description and the resource's AtProvider.ID,
\* and no remote Create or Delete.
C4_DriftUpdates ==
    \A w \in Workers :
        (/\ Finished(w) /\ pre[w].r.ext # "" /\ ObservedFound(w)
         /\ First(log[w], "Lookup").desc # pre[w].r.desc) =>
            /\ Count(log[w], "RemoteUpdate") = 1
            /\ First(log[w], "RemoteUpdate").desc = pre[w].r.desc
            /\ First(log[w], "RemoteUpdate").id = pre[w].r.id
            /\ Count(log[w], "RemoteCreate") = 0
            /\ Count(log[w], "RemoteDelete") = 0

C4_Witness ==
    \E w \in Workers :
        /\ Finished(w) /\ pre[w].r.ext # "" /\ ObservedFound(w)
        /\ First(log[w], "Lookup").desc # pre[w].r.desc
        /\ result[w] = NoErr
        /\ remote[pre[w].r.ext].desc = pre[w].r.desc

C8_NoSecondCreate ==
    \A w \in Workers :
        (pc[w] # "idle" /\ pre[w].nid > FirstFreshID /\ oob = 0) =>
            Count(log[w], "RemoteCreate") = 0

ConnectReturned(w) == pc[w] = "connect" /\ pc'[w] # "connect"
ConnectFailed(w) == pc[w] = "connect" /\ pc'[w] = "done"

\* C9 as stated (a failing Connect mutates nothing): a Connect that returns
\* an error leaves the remote system and the whole store as they were, and
\* no Connect changes the remote system.
C9_FailingConnectMutatesNothing ==
    [][\A w \in Workers :
          /\ ConnectFailed(w) =>
                mr' = mr /\ pcUsage' = pcUsage /\ remote' = remote
          /\ ConnectReturned(w) => remote' = remote /\ nextID' = nextID]_vars

\* C9 as amended: no Connect, failing or not, changes the remote system, the
\* managed resource or its status; the one store write of Connect is the
\* ProviderConfig usage record, which a Connect that fails at the type check
\* or at the tracking step itself leaves as it was.
C9_ConnectWritesOnlyUsage ==
    [][\A w \in Workers :
          /\ ConnectReturned(w) =>
                mr' = mr /\ remote' = remote /\ nextID' = nextID
          /\ (ConnectFailed(w)
               /\ Head(result'[w]) \in {errNotMyType, errTrackPCUsage}) =>
                pcUsage' = pcUsage
          /\ ConnectReturned(w) => (pcUsage => pcUsage')]_vars

\* A first tick whose Connect failed after the tracking step.
C9_Witness ==
    \E w \in Workers :
        /\ Finished(w) /\ ticks = 1
        /\ result[w] # NoErr /\ Head(result[w]) = errGetPC
        /\ pcUsage

Colons(b) == Cardinality({i \in 1..Len(b) : b[i] = ":"})

\* Connect has just returned and had resolved credential bytes.
ResolvedCreds(w) ==
    /\ pc[w] \in {"observe", "delete", "done"}
    /\ Len(log[w]) >= 3
    /\ log[w][3].op = "GetCreds" /\ log[w][3].err = NoErr
    /\ log[w][Len(log[w])].op \in {"GetCreds", "Authenticate"}

\* C10 (credential handling): when the resolved bytes do not hold exactly
\* one ':' Connect fails with the invalid-credentials error, no Authenticate
\* call was made and no client was produced; when they do, Authenticate was
\* called once, and Connect fails without a client when it was rejected and
\* produces the client when it was accepted.
C10_CredentialHandling ==
    \A w \in Workers :
        ResolvedCreds(w) =>
            IF Colons(conn[w].creds) # 1
            THEN /\ Finished(w)
                 /\ result[w] = <<errNewClient, errAuthCredentials>>
                 /\ ~Has(log[w], "Authenticate")
                 /\ ~conn[w].svc
            ELSE /\ Count(log[w], "Authenticate") = 1
                 /\ IF First(log[w], "Authenticate").err # NoErr
                    THEN /\ Finished(w)
                         /\ result[w] # NoErr
                         /\ Head(result[w]) = errNewClient
                         /\ result[w] # <<errNewClient, errAuthCredentials>>
                         /\ ~conn[w].svc
                    ELSE /\ ~Finished(w)
                         /\ result[w] = NoErr
                         /\ conn[w].svc

\* Bytes with two ':' were refused.
C10_Witness ==
    \E w \in Workers :
        /\ ResolvedCreds(w)
        /\ Colons(conn[w].creds) = 2
        /\ result[w] = <<errNewClient, errAuthCredentials>>

\* C11 (lookup failure is fatal for the tick): every tick whose lookup in
\* Observe failed with an error other than not-found has returned that
\* error from Observe, has issued no remote Create, Update or Delete, and has
\* written no Available (Ready=True) condition, neither to the stored
\* resource nor as an attempted status write.
C11_LookupErrorFatal ==
    \A w \in Workers :
        (Has(log[w], "Lookup") /\ First(log[w], "Lookup").err = New(ErrLookup)) =>
            /\ Finished(w)
            /\ result[w] = New(ErrLookup)
            /\ RemoteWrites(w) = 0
            /\ Count(log[w], "StatusUpdate") = 0
            /\ mr.cond = pre[w].r.cond /\ mr.id = pre[w].r.id
            /\ mr.ext = pre[w].r.ext

\* A tick whose lookup failed, for a resource that was Available before
\* and for one that is new.
C11_Witness ==
    \E w \in Workers :
        /\ Finished(w)
        /\ Has(log[w], "Lookup") /\ First(log[w], "Lookup").err = New(ErrLookup)
        /\ pre[w].r.cond = "Available"
        /\ result[w] # NoErr

\* The remote writes of a tick that the remote system rejected.
RejectedWrites(w) ==
    {i \in 1..Len(log[w]) :
        /\ log[w][i].op \in {"RemoteCreate", "RemoteUpdate", "RemoteDelete"}
        /\ log[w][i].err # NoErr}

\* The condition a handler has persisted by the time its remote call is made.
ConditionAtCall(w, op) ==
    IF op = "RemoteCreate" THEN "Creating"
    ELSE IF op = "RemoteDelete" THEN "Deleting"
    ELSE pre[w].r.cond

\* C12 as stated (a rejected remote write leaves the resource in its prior
\* state): a finished tick whose remote Create, Update or Delete was rejected
\* has returned that error, and the persisted condition, AtProvider.ID and
\* external name are those the resource had before the tick.
C12_RejectedWriteKeepsPriorState ==
    \A w \in Workers : \A i \in RejectedWrites(w) :
        Finished(w) =>
            /\ result[w] = log[w][i].err
            /\ mr.cond = pre[w].r.cond
            /\ mr.id = pre[w].r.id
            /\ mr.ext = pre[w].r.ext

\* C12 as amended (a rejected remote write leaves the resource's identity
\* alone): a finished tick whose remote Create, Update or Delete was rejected
\* has returned that error, the persisted AtProvider.ID and external name are
\* those the resource had before the tick, and the persisted condition is the
\* prior one after a rejected Update, Creating after a rejected Create and
\* Deleting after a rejected Delete.
C12_RejectedWriteKeepsIdentity ==
    \A w \in Workers : \A i \in RejectedWrites(w) :
        Finished(w) =>
            /\ result[w] = log[w][i].err
            /\ mr.cond = ConditionAtCall(w, log[w][i].op)
            /\ mr.id = pre[w].r.id
            /\ mr.ext = pre[w].r.ext

\* A tick whose remote Update was rejected for a resource that was Available.
C12_Witness ==
    \E w \in Workers : \E i \in RejectedWrites(w) :
        /\ Finished(w)
        /\ log[w][i].op = "RemoteUpdate"
        /\ pre[w].r.cond = "Available"
        /\ pre[w].r.id # 0

----------------------------------------------------------------------------
(* Re-entrant ticks: the scheduler's single-flight guarantee is broken and  *)
(* a second tick for the resource starts while another is running.  Each    *)
(* tick works on the copy of the resource it was handed.                    *)
(* Drift of a description is left to the single-flight runs: the handlers   *)
(* it leads to write nothing to the store.                                  *)

\* Ticks started in a run where ticks may overlap.
MaxReentrantTicks == 2

StartTickAny(w) ==
    /\ Idle(w)
    /\ (\A v \in Workers : Idle(v)) => w = FirstWorker
    /\ ticks < MaxReentrantTicks
    /\ ticks' = ticks + 1
    /\ pc' = [pc EXCEPT ![w] = "connect"]
    /\ cr' = [cr EXCEPT ![w] = mr]
    /\ pre' = [pre EXCEPT ![w] = [r |-> mr, nid |-> nextID]]
    /\ UNCHANGED <<mr, pcUsage, remote, nextID, conn, log, result, oob>>

\* Connect for a ProviderConfig that is in place and carries one well-formed
\* credential; the remote system accepts it or not.
ResolvedConnectInputs ==
    {i \in ConnectInputs :
        /\ i.typeOk /\ i.trackOk /\ i.getOk /\ i.credsOk
        /\ i.creds = <<":">>
        /\ i.apiList = <<"acl", "serviceaccount">>}

ConnectResolved(w) ==
    /\ pc[w] = "connect"
    /\ \E i \in ResolvedConnectInputs :
          LET o == ConnectOutcome(pcUsage, i.typeOk, i.trackOk, i.getOk,
                                  i.credsOk, i.creds, i.apiList, i.authOk)
          IN /\ pcUsage' = o.usage
             /\ conn' = [conn EXCEPT ![w] = o.conn]
             /\ log' = [log EXCEPT ![w] = @ \o o.log]
             /\ result' = [result EXCEPT ![w] = o.err]
             /\ pc' = [pc EXCEPT ![w] =
                         IF o.err # NoErr THEN "done" ELSE AfterConnect(cr[w])]
    /\ UNCHANGED <<mr, remote, nextID, cr, pre, ticks, oob>>

NextReentrant ==
    \/ \E w \in Workers : StartTickAny(w)
    \/ \E w \in Workers : ConnectResolved(w)
    \/ \E w \in Workers : Observe(w)
    \/ \E w \in Workers : Create(w)
    \/ \E w \in Workers : Update(w)
    \/ \E w \in Workers : Delete(w)
    \/ \E w \in Workers : EndTick(w)
    \/ MarkForDeletion
    \/ \E n \in Names : OutOfBandDelete(n)

SpecReentrant == Init /\ [][NextReentrant]_vars

\* C13 (the external name is immutable once set): no step of any tick, nor
\* of the caller or the remote system's other users, changes a non-empty
\* external name of the stored resource, also when ticks for the resource
\* overlap.
C13_ExternalNameImmutable == [][mr.ext # "" => mr'.ext = mr.ext]_vars

\* A tick that was handed the resource without an external name has written
\* its status after another tick had set the name.
C13_Witness ==
    \E w \in Workers :
        /\ Finished(w)
        /\ pre[w].r.ext = "" /\ mr.ext # ""
        /\ Has(log[w], "StatusUpdate")
        /\ ~Has(log[w], "KubeUpdate")

\* Observe of the tick has reported the resource as existing.
ObserveReportedExisting(w) ==
    /\ ObservedFound(w)
    /\ cr[w].ext # ""
    /\ \/ pc[w] = "update"
       \/ Has(log[w], "RemoteUpdate")
       \/ Finished(w) /\ result[w] = NoErr

\* The remote system has handed an identifier to the Engine's Create.
EngineCreated == nextID > FirstFreshID

\* C14 (AtProvider.ID is set exactly when the resource is known to exist
\* remotely): in every state the persisted AtProvider.ID is non-empty if the
\* Engine has created the remote object, a non-empty AtProvider.ID is one the
\* remote system has handed out, and a resource that Observe has reported as
\* existing has a non-empty persisted AtProvider.ID.
C14_IDIffKnownRemote ==
    /\ EngineCreated => mr.id # 0
    /\ mr.id # 0 => mr.id < nextID
    /\ \A w \in Workers : ObserveReportedExisting(w) => mr.id # 0

\* No write to the store failed in the tick.
StoreWritesWentThrough(w) ==
    \A i \in 1..Len(log[w]) :
        log[w][i].op \in {"StatusUpdate", "KubeUpdate"} => log[w][i].err = NoErr

\* Two ticks were handed the resource before either had created anything,
\* without an external name and with no remote object of its name, and both
\* have run to their end undisturbed.
TwoOverlappingFirstTicks ==
    /\ oob = 0
    /\ \A w \in Workers :
          /\ Finished(w)
          /\ pre[w].r.ext = "" /\ pre[w].r.id = 0 /\ ~pre[w].r.del
          /\ pre[w].nid = FirstFreshID
          /\ StoreWritesWentThrough(w)
    /\ remote[ResourceName] = NoObj \/ remote[ResourceName].by = "engine"

\* C15 (re-entrant ticks for the same identity are safe): when two ticks for
\* a resource with no external name and no remote object overlap, at most
\* one remote object is created for it, and once both have ended the
\* persisted AtProvider.ID and external name are those of that object.
C15_ReentrantSafe ==
    TwoOverlappingFirstTicks =>
        /\ nextID <= FirstFreshID + 1
        /\ remote[ResourceName] # NoObj =>
              /\ mr.id = remote[ResourceName].id
              /\ mr.ext = ResourceName

\* The position of the tick's first event of an operation (0: none).
Pos(s, op) ==
    IF Has(s, op)
    THEN CHOOSE i \in 1..Len(s) : s[i].op = op /\ \A j \in 1..(i - 1) : s[j].op # op
    ELSE 0

\* C16 (deletion ordering): a tick issues a remote Delete only for a resource
\* marked for deletion, only after its write of the Deleting condition went
\* through, and with the resource's AtProvider.ID; a tick on the deletion
\* path that has ended has written Deleting or failed to, has issued no
\* remote Create or Update, and the stored resource is still there with its
\* mark, its external name and its AtProvider.ID.
C16_DeletionOrdering ==
    \A w \in Workers :
        /\ Has(log[w], "RemoteDelete") =>
              /\ pre[w].r.del
              /\ Pos(log[w], "StatusUpdate") \in 1..(Pos(log[w], "RemoteDelete") - 1)
              /\ First(log[w], "StatusUpdate").cond = "Deleting"
              /\ First(log[w], "StatusUpdate").err = NoErr
              /\ mr.cond = "Deleting"
              /\ First(log[w], "RemoteDelete").id = pre[w].r.id
              /\ Count(log[w], "RemoteDelete") = 1
        /\ (Finished(w) /\ pre[w].r.del /\ Has(log[w], "StatusUpdate")) =>
              /\ First(log[w], "StatusUpdate").cond = "Deleting"
              /\ mr.del
              /\ mr.ext = pre[w].r.ext /\ mr.id = pre[w].r.id
              /\ Count(log[w], "RemoteCreate") + Count(log[w], "RemoteUpdate") = 0

\* A tick has deleted the remote object the Engine had created.
C16_Witness ==
    \E w \in Workers :
        /\ Finished(w) /\ result[w] = NoErr
        /\ Has(log[w], "RemoteDelete")
        /\ pre[w].r.id >= FirstFreshID
        /\ First(log[w], "RemoteDelete").name = ResourceName
        /\ remote[ResourceName] = NoObj

\* The calls a tick makes to the remote system's service-account API.
RemoteCalls(w) ==
    {j \in 1..Len(log[w]) :
        log[w][j].op \in {"Lookup", "RemoteCreate", "RemoteUpdate", "RemoteDelete"}}

\* The status writes of a tick, and those that went through.
StatusWrites(w) == {i \in 1..Len(log[w]) : log[w][i].op = "StatusUpdate"}
StatusWritten(w) == {i \in StatusWrites(w) : log[w][i].err = NoErr}

\* The remote write a handler announces with an in-progress condition.
AnnouncedCall(cond) == IF cond = "Creating" THEN "RemoteCreate" ELSE "RemoteDelete"

----------------------------------------------------------------------------
(* Fair scheduling without failures: the reconciler polls the resource      *)
(* again and again, every store and remote call goes through where the      *)
(* remote system's state allows it, and nobody marks the resource for       *)
(* deletion or deletes its remote object.  Ticks are not counted.           *)

StartTickFair(w) ==
    /\ \A v \in Workers : Idle(v)
    /\ w = FirstWorker
    /\ pc' = [pc EXCEPT ![w] = "connect"]
    /\ cr' = [cr EXCEPT ![w] = mr]
    /\ pre' = [pre EXCEPT ![w] = [r |-> mr, nid |-> nextID]]
    /\ UNCHANGED <<mr, pcUsage, remote, nextID, conn, log, result, ticks, oob>>

ConnectNoFail(w) ==
    /\ pc[w] = "connect"
    /\ \E i \in ResolvedConnectInputs :
          LET o == ConnectOutcome(pcUsage, i.typeOk, i.trackOk, i.getOk,
                                  i.credsOk, i.creds, i.apiList, i.authOk)
          IN /\ i.authOk
             /\ pcUsage' = o.usage
             /\ conn' = [conn EXCEPT ![w] = o.conn]
             /\ log' = [log EXCEPT ![w] = @ \o o.log]
             /\ result' = [result EXCEPT ![w] = o.err]
             /\ pc' = [pc EXCEPT ![w] =
                         IF o.err # NoErr THEN "done" ELSE AfterConnect(cr[w])]
    /\ UNCHANGED <<mr, remote, nextID, cr, pre, ticks, oob>>

ObserveNoFail(w) ==
    /\ pc[w] = "observe"
    /\ LET o == ObserveOutcome(cr[w], mr, remote, nextID, FALSE, TRUE)
       IN Apply(w, o.out, AfterObserve(o.obs, o.out.err))
    /\ conn' = [conn EXCEPT ![w] = [NoConn EXCEPT !.svc = TRUE]]
    /\ UNCHANGED <<pcUsage, pre, ticks, oob>>

CreateNoFail(w) ==
    /\ pc[w] = "create"
    /\ Apply(w, CreateOutcome(cr[w], mr, remote, nextID, TRUE, FALSE, TRUE,
                              TRUE, TRUE), "done")
    /\ UNCHANGED <<pcUsage, pre, conn, ticks, oob>>

UpdateNoFail(w) ==
    /\ pc[w] = "update"
    /\ Apply(w, UpdateOutcome(cr[w], mr, remote, nextID, TRUE), "done")
    /\ UNCHANGED <<pcUsage, pre, conn, ticks, oob>>

NextFair ==
    \/ StartTickFair(FirstWorker)
    \/ ConnectNoFail(FirstWorker)
    \/ ObserveNoFail(FirstWorker)
    \/ CreateNoFail(FirstWorker)
    \/ UpdateNoFail(FirstWorker)
    \/ EndTick(FirstWorker)
    \/ \E n \in Names, d \in Descs : OutOfBandDrift(n, d)

SpecFair ==
    /\ Init
    /\ [][NextFair]_vars
    /\ WF_vars(StartTickFair(FirstWorker))
    /\ WF_vars(ConnectNoFail(FirstWorker))
    /\ WF_vars(ObserveNoFail(FirstWorker))
    /\ WF_vars(CreateNoFail(FirstWorker))
    /\ WF_vars(UpdateNoFail(FirstWorker))
    /\ WF_vars(EndTick(FirstWorker))

\* The resource has never been reconciled and the remote system holds no
\* object of its name.
Fresh == mr.ext = "" /\ mr.cond = "" /\ remote[ResourceName] = NoObj

\* The remote object the resource's external name addresses differs from
\* the declared description.
Drifted ==
    /\ mr.ext # ""
    /\ remote[mr.ext] # NoObj
    /\ remote[mr.ext].desc # mr.desc

\* The remote object matches the declared description and the resource is
\* Ready.
InSyncAndReady ==
    /\ mr.ext # ""
    /\ remote[mr.ext] # NoObj
    /\ remote[mr.ext].desc = mr.desc
    /\ mr.cond = "Available"

\* C18 (convergence): with no failures and fair scheduling of ticks, a
\* resource with no external name and no remote object eventually carries
\* the Creating condition with the created object's identifier and from
\* there eventually is Ready, and a resource whose remote object has drifted
\* eventually is Ready again with the remote object matching the declared
\* description.
C18_Convergence ==
    /\ Fresh ~> (mr.cond = "Creating" /\ mr.id # 0)
    /\ (mr.cond = "Creating" /\ mr.id # 0) ~> (mr.cond = "Available")
    /\ Drifted ~> InSyncAndReady

\* The part of C18 about a resource no tick has seen yet.
C18_FreshConverges ==
    /\ Fresh ~> (mr.cond = "Creating" /\ mr.id # 0)
    /\ (mr.cond = "Creating" /\ mr.id # 0) ~> (mr.cond = "Available")

\* The part of C18 about drift, for resources whose AtProvider.ID is set.
C18_DriftConvergesWithID ==
    (Drifted /\ mr.id # 0) ~> InSyncAndReady

====
